---- MODULE Spec2Model ----
(***************************************************************************)
(* The astronomy vision bot of src/main.py: the !astro command             *)
(* (astro_vision), the per-category zero-shot classification               *)
(* (classify_astronomy_image) with its chunked branch, and the image       *)
(* download (download_image).                                              *)
(*                                                                         *)
(* A request is a coroutine on the bot's event loop.  It gives up control  *)
(* only at an await, so one action of the model is the code that runs from *)
(* the completion of one await to the start of the next one:               *)
(*   AstroInvoke    the command starts; the image download is awaited      *)
(*   DownloadDone   the download completes or raises; on success the       *)
(*                  first classifier call is handed to the executor        *)
(*   ClassifyDone   a classifier call completes or raises; its result is   *)
(*                  folded in and either the next call is issued or the    *)
(*                  reply is sent                                          *)
(* Labels are modelled by their position in the category's list, scores    *)
(* as whole percents (0..100).                                             *)
(***************************************************************************)
EXTENDS Integers, Sequences, FiniteSets, TLC

VARIABLES
    taxonomy,          \* ASTRONOMY_LABELS: sequence of [name, labels], declaration order
    backend,           \* the vision_classifier seen by the requests: [det, fn]
    requests,          \* the !astro invocations that exist in this run
    pc,                \* per request: "idle", "download", "classify", "done"
    image,             \* per request: "none", "loaded" or the reason the download failed
    cat,               \* per request: index in taxonomy of the category being classified
    offset,            \* per request: i of the chunk loop (0-based start of the slice)
    category_results,  \* per request: the local list category_results
    results,           \* per request: the local dict results, in insertion order
    returned,          \* per request: what classify_astronomy_image gave its caller
    calls,             \* per request: the classifier calls issued so far, in order, each
                       \* [category, labels, answer]; answer is "pending" while the
                       \* executor runs the call, then the kind of what came back
    sent,              \* the messages sent with ctx.reply, in the order they were
                       \* sent, each [request, message]
    score,             \* the confidence handed to the star rendering
    stars              \* the number of stars rendered for it (0: nothing rendered yet)

vars == << taxonomy, backend, requests, pc, image, cat, offset, category_results,
           results, returned, calls, sent, score, stars >>

reqvars == << taxonomy, backend, requests, pc, image, cat, offset, category_results,
              results, returned, calls, sent >>

----------------------------------------------------------------------------
(* Program constants and the bounds of the model *)

chunk_threshold == 100     \* if len(labels) > 100
chunk_size == 30           \* chunk_size = 30

MaxChunks == 4             \* the largest chunked category has MaxChunks full chunks
MaxRequests == 2           \* concurrent !astro invocations

Min(a, b) == IF a < b THEN a ELSE b
SetMax(S) == CHOOSE m \in S : \A x \in S : x <= m

Requests == 1..MaxRequests

----------------------------------------------------------------------------
(* The label taxonomy *)

Labels(n) == [i \in 1..n |-> i]

Category(name, n) == [name |-> name, labels |-> Labels(n)]

\* The table the repository ships: 88, 30, 12, 9, 8, 7 and 9 labels.
ASTRONOMY_LABELS ==
    << Category("constellations", 88), Category("stars", 30),
       Category("deep_sky", 12), Category("planets", 9),
       Category("moon_phases", 8), Category("solar_system", 7),
       Category("space_objects", 9) >>

\* classify_astronomy_image reads whatever the module-level table holds.  No
\* shipped category is above the threshold, so the model also runs the code on
\* tables whose constellation list has grown past it: one label above the
\* threshold (a short last chunk) and a whole number of chunks.
ChunkedSizes == {chunk_threshold + 1, MaxChunks * chunk_size}

GrownLabels(n) ==
    << Category("planets", 9), Category("constellations", n),
       Category("stars", chunk_threshold) >>

Taxonomies == {ASTRONOMY_LABELS} \cup {GrownLabels(n) : n \in ChunkedSizes}

CategoryNames(t) == {t[c].name : c \in 1..Len(t)}

----------------------------------------------------------------------------
(* The classifier backend (the transformers pipeline behind vision_classifier) *)

Scores == {10, 50, 90}

\* Positions at which a score function may single a label out: the first
\* label, both sides of every chunk boundary, and the last label of each
\* chunked size.
PeakPositions ==
    {1} \cup {k * chunk_size : k \in 1..(MaxChunks - 1)}
        \cup {k * chunk_size + 1 : k \in 1..(MaxChunks - 1)}
        \cup ChunkedSizes

\* A confidence that is a function of the label alone.
ScoreOf(fn, l) ==
    IF l = fn.p1 THEN fn.s1 ELSE IF l = fn.p2 THEN fn.s2 ELSE fn.base

Scored(fn, labels) ==
    [i \in 1..Len(labels) |-> [label |-> labels[i], score |-> ScoreOf(fn, labels[i])]]

RECURSIVE RankFrom(_, _)
RankFrom(rs, S) ==
    IF S = {} THEN << >>
    ELSE LET m == SetMax(S)
             Has(x) == x.score = m
         IN  SelectSeq(rs, Has) \o RankFrom(rs, S \ {m})

\* Highest confidence first; equal confidences keep the candidates' order.
Ranked(rs) == RankFrom(rs, {rs[i].score : i \in 1..Len(rs)})

\* Swapping the two peaks gives the same function, so p2 <= p1 loses none.
ScoreFns ==
    {f \in [p1 : PeakPositions, p2 : PeakPositions, s1 : Scores, s2 : Scores,
            base : Scores] : f.p2 <= f.p1}

\* The small family used where every call may answer differently.
FewScoreFns ==
    [p1 : {1, chunk_threshold + 1}, p2 : {chunk_size + 1}, s1 : {50, 90}, s2 : {90},
     base : {10}]

\* What one call can give back: an exception, or a list of label/score dicts.
\* A backend with det answers every call with the full ranked list (or
\* raises); any other backend may also answer with an empty list or with the
\* candidates in the order they were passed.
ResponseKinds(b) ==
    IF b.det THEN {"ranked", "raise"} ELSE {"ranked", "unranked", "empty", "raise"}

Respond(kind, fn, labels) ==
    [raised |-> (kind = "raise"),
     list   |-> CASE kind = "ranked"   -> Ranked(Scored(fn, labels))
                  [] kind = "unranked" -> Scored(fn, labels)
                  [] OTHER             -> << >>]

----------------------------------------------------------------------------
(* download_image *)

DownloadOutcomes == {"ok", "http_error", "timeout", "decode_error"}

\* status != 200 raises ValueError, asyncio.TimeoutError is turned into
\* ValueError, Image.open raises on bytes that are no image.
\* Faulty variant: only the timeout is treated as a failure.
DownloadFailed_TimeoutOnly(outcome) == outcome = "timeout"

DownloadFailed(outcome) == outcome # "ok"

----------------------------------------------------------------------------
(* classify_astronomy_image *)

\* Faulty variant: a list of exactly chunk_threshold labels is chunked too.
IsChunked_AtThreshold(labels) == Len(labels) >= chunk_threshold

IsChunked(labels) == Len(labels) > chunk_threshold

\* Faulty variant: the slice ends one label early.
Chunk_OffByOne(labels, i) == SubSeq(labels, i + 1, Min(i + chunk_size - 1, Len(labels)))

\* labels[i:i+chunk_size]
Chunk(labels, i) == SubSeq(labels, i + 1, Min(i + chunk_size, Len(labels)))

\* range(0, len(labels), chunk_size): the start after i
NextOffset(i) == i + chunk_size

\* Faulty variant: category_results = chunk_results.
Extend_Overwrite(acc, chunk_results) == chunk_results

\* category_results.extend(chunk_results)
Extend(acc, chunk_results) == acc \o chunk_results

\* Faulty variant: the last of the maxima.
BestOf_Last(rs) ==
    rs[CHOOSE i \in 1..Len(rs) :
          /\ \A j \in 1..Len(rs) : rs[j].score <= rs[i].score
          /\ \A j \in (i + 1)..Len(rs) : rs[j].score < rs[i].score]

\* max(category_results, key=lambda x: x['score']): the first of the maxima
BestOf(rs) ==
    rs[CHOOSE i \in 1..Len(rs) :
          /\ \A j \in 1..Len(rs) : rs[j].score <= rs[i].score
          /\ \A j \in 1..(i - 1) : rs[j].score < rs[i].score]

\* category_results[0]
TopOf(rs) == rs[1]

\* Faulty variant: a low-confidence result is not stored.
Store_Thresholded(res, name, r) ==
    IF r.score < 50 THEN res
    ELSE Append(res, [category |-> name, label |-> r.label, score |-> r.score])

\* results[category] = {"label": ..., "score": ...}
Store(res, name, r) ==
    Append(res, [category |-> name, label |-> r.label, score |-> r.score])

\* Faulty variant: the exception is swallowed and the loop goes on.
Raises_Never(resp) == FALSE

\* the executor raised: except Exception ... raise
Raises(resp) == resp.raised

\* Faulty variant: the loop goes on without waiting for the call.
Awaited_NoWait(cs, kind) == cs

\* await run_in_executor(...): the coroutine resumes when the last call it
\* issued is back
Awaited(cs, kind) == [cs EXCEPT ![Len(cs)].answer = kind]

----------------------------------------------------------------------------
(* astro_vision *)

\* Faulty variant: no min(5, ...).
Stars_NoCap(s) == ((s * 5) \div 100) + 1

\* "*" * min(5, int(score * 5) + 1), the score in percent
Stars(s) == Min(5, ((s * 5) \div 100) + 1)

\* one block per entry of results, in the dict's order
Report(res) ==
    [kind   |-> "report",
     error  |-> "none",
     blocks |-> [k \in 1..Len(res) |->
                   [category |-> res[k].category, label |-> res[k].label,
                    score |-> res[k].score, stars |-> Stars(res[k].score)]]]

Failure(why) == [kind |-> "failure", error |-> why, blocks |-> << >>]

Prompt == [kind |-> "prompt", error |-> "none", blocks |-> << >>]

\* Faulty variant: the failure is reported twice.
ReplyFailure_Twice(out, r, why) ==
    Append(Append(out, [request |-> r, message |-> Failure(why)]),
           [request |-> r, message |-> Failure(why)])

\* except Exception as e: await ctx.reply("Vision analysis failed: ...")
ReplyFailure(out, r, why) == Append(out, [request |-> r, message |-> Failure(why)])

----------------------------------------------------------------------------
(* The steps of a request *)

\* The call the loop makes for category c at chunk start i is handed to the
\* executor and awaited (lines 128-132 and 145-147).
IssueCall(r, c, i, cs, cr, res) ==
    LET labels == taxonomy[c].labels
        passed == IF IsChunked(labels) THEN Chunk(labels, i) ELSE labels
    IN  /\ pc' = [pc EXCEPT ![r] = "classify"]
        /\ cat' = [cat EXCEPT ![r] = c]
        /\ offset' = [offset EXCEPT ![r] = i]
        /\ category_results' = [category_results EXCEPT ![r] = cr]
        /\ results' = [results EXCEPT ![r] = res]
        /\ calls' = [calls EXCEPT ![r] =
                       Append(cs, [category |-> taxonomy[c].name, labels |-> passed,
                                   answer |-> "pending"])]
        /\ UNCHANGED << returned, sent >>

\* return results, then astro_vision builds the report and replies with it.
Finish(r, cs, cr, res) ==
    /\ pc' = [pc EXCEPT ![r] = "done"]
    /\ category_results' = [category_results EXCEPT ![r] = cr]
    /\ results' = [results EXCEPT ![r] = res]
    /\ calls' = [calls EXCEPT ![r] = cs]
    /\ returned' = [returned EXCEPT ![r] = [status |-> "returned", value |-> res]]
    /\ sent' = Append(sent, [request |-> r, message |-> Report(res)])
    /\ UNCHANGED << cat, offset >>

\* An exception leaves classify_astronomy_image (logged, re-raised) and is
\* caught by astro_vision, which replies with the failure.
Fail(r, why, cs, cr, res) ==
    /\ pc' = [pc EXCEPT ![r] = "done"]
    /\ category_results' = [category_results EXCEPT ![r] = cr]
    /\ results' = [results EXCEPT ![r] = res]
    /\ calls' = [calls EXCEPT ![r] = cs]
    /\ returned' = [returned EXCEPT ![r] = [status |-> "raised", value |-> << >>]]
    /\ sent' = ReplyFailure(sent, r, why)
    /\ UNCHANGED << cat, offset >>

\* The head of "for category, labels in ASTRONOMY_LABELS.items()" at the
\* c-th category: the loop is over, or the category's first call is issued.
StartCategory(r, c, cs, cr, res) ==
    IF c > Len(taxonomy)
    THEN Finish(r, cs, cr, res)
    ELSE IssueCall(r, c, 0, cs,
                   IF IsChunked(taxonomy[c].labels) THEN << >> ELSE cr, res)

\* !astro arrives.  Without a URL and without an attachment the command
\* replies with the prompt and returns; otherwise the download is awaited.
AstroInvoke(r, hasImage) ==
    /\ r \in requests
    /\ pc[r] = "idle"
    /\ IF hasImage
       THEN /\ pc' = [pc EXCEPT ![r] = "download"]
            /\ UNCHANGED sent
       ELSE /\ pc' = [pc EXCEPT ![r] = "done"]
            /\ sent' = Append(sent, [request |-> r, message |-> Prompt])
    /\ UNCHANGED << taxonomy, backend, requests, image, cat, offset, category_results,
                    results, returned, calls, score, stars >>

\* download_image returns or raises.
DownloadDone(r, outcome) ==
    /\ r \in requests
    /\ pc[r] = "download"
    /\ image' = [image EXCEPT ![r] = IF outcome = "ok" THEN "loaded" ELSE outcome]
    /\ IF DownloadFailed(outcome)
       THEN Fail(r, outcome, calls[r], category_results[r], results[r])
       ELSE StartCategory(r, 1, calls[r], category_results[r], << >>)
    /\ UNCHANGED << taxonomy, backend, requests, score, stars >>

\* The classifier call in flight returns or raises.
ClassifyDone(r, kind) ==
    /\ r \in requests
    /\ pc[r] = "classify"
    /\ kind \in ResponseKinds(backend)
    /\ LET c      == cat[r]
           labels == taxonomy[c].labels
           name   == taxonomy[c].name
           n      == Len(calls[r])
           resp   == Respond(kind, backend.fn, calls[r][n].labels)
           cs     == Awaited(calls[r], kind)
       IN  IF Raises(resp)
           THEN Fail(r, "classification", cs, category_results[r], results[r])
           ELSE IF IsChunked(labels)
           THEN LET cr == IF resp.list # << >>
                          THEN Extend(category_results[r], resp.list)
                          ELSE category_results[r]
                IN  IF NextOffset(offset[r]) < Len(labels)
                    THEN IssueCall(r, c, NextOffset(offset[r]), cs, cr, results[r])
                    ELSE StartCategory(r, c + 1, cs, cr,
                                       IF cr # << >>
                                       THEN Store(results[r], name, BestOf(cr))
                                       ELSE results[r])
           ELSE LET cr == resp.list
                IN  StartCategory(r, c + 1, cs, cr,
                                  IF cr # << >>
                                  THEN Store(results[r], name, TopOf(cr))
                                  ELSE results[r])
    /\ UNCHANGED << taxonomy, backend, requests, image, score, stars >>

\* The star rendering applied to one confidence.
RenderStars ==
    /\ stars = 0
    /\ stars' = Stars(score)
    /\ UNCHANGED << reqvars, score >>

----------------------------------------------------------------------------
(* Specifications *)

Backends ==
    [det : {TRUE}, fn : ScoreFns] \cup [det : {FALSE}, fn : FewScoreFns]

\* The backends of the runs with concurrent requests.
FewBackends == [det : {TRUE}, fn : {f \in FewScoreFns : f.s1 = 50}]

\* The longest label list of table t.
MaxLabels(t) == SetMax({Len(t[c].labels) : c \in 1..Len(t)})

InitRequests(rs, ts, bs) ==
    /\ taxonomy \in ts
    /\ backend \in bs
    \* a peak past the last label of every list singles nothing out
    /\ backend.det => backend.fn.p1 <= MaxLabels(taxonomy)
    /\ requests = rs
    /\ pc = [r \in Requests |-> "idle"]
    /\ image = [r \in Requests |-> "none"]
    /\ cat = [r \in Requests |-> 0]
    /\ offset = [r \in Requests |-> 0]
    /\ category_results = [r \in Requests |-> << >>]
    /\ results = [r \in Requests |-> << >>]
    /\ returned = [r \in Requests |-> [status |-> "pending", value |-> << >>]]
    /\ calls = [r \in Requests |-> << >>]
    /\ sent = << >>

\* One request, every table, every backend.
Init ==
    /\ InitRequests({1}, Taxonomies, Backends)
    /\ score = 0
    /\ stars = 0

\* Concurrent requests on the event loop.
InitConcurrent ==
    /\ InitRequests(Requests, Taxonomies, FewBackends)
    /\ score = 0
    /\ stars = 0

\* The star rendering on every whole-percent confidence.
InitStars ==
    /\ InitRequests({}, {ASTRONOMY_LABELS}, {CHOOSE b \in FewBackends : TRUE})
    /\ score \in 0..100
    /\ stars = 0

Next ==
    \E r \in Requests :
        \/ \E hasImage \in BOOLEAN : AstroInvoke(r, hasImage)
        \/ \E outcome \in DownloadOutcomes : DownloadDone(r, outcome)
        \/ \E kind \in {"ranked", "unranked", "empty", "raise"} : ClassifyDone(r, kind)

NextConcurrent ==
    \E r \in Requests :
        \/ \E hasImage \in BOOLEAN : AstroInvoke(r, hasImage)
        \/ \E outcome \in DownloadOutcomes : DownloadDone(r, outcome)
        \/ \E kind \in {"ranked", "raise"} : ClassifyDone(r, kind)

NextStars == RenderStars

Spec == Init /\ [][Next]_vars

SpecConcurrent == InitConcurrent /\ [][NextConcurrent]_vars

SpecStars == InitStars /\ [][NextStars]_vars

----------------------------------------------------------------------------
(* Vocabulary of the properties *)

RECURSIVE Flatten(_)
Flatten(ss) == IF ss = << >> THEN << >> ELSE Head(ss) \o Flatten(Tail(ss))

IsPrefix(a, b) == Len(a) <= Len(b) /\ a = SubSeq(b, 1, Len(a))

CeilDiv(n, d) == (n + d - 1) \div d

\* The messages request r has been sent, in order.
Replies(r) ==
    LET Mine(m) == m.request = r
        mine    == SelectSeq(sent, Mine)
    IN  [k \in 1..Len(mine) |-> mine[k].message]

\* The calls request r has issued for the category called name, in order.
CallsFor(r, name) ==
    LET Mine(k) == k.category = name IN SelectSeq(calls[r], Mine)

PassedLabels(cs) == [k \in 1..Len(cs) |-> cs[k].labels]

\* What the backend gave back for an answered call.
Answer(k) == Respond(k.answer, backend.fn, k.labels).list

Answers(cs) == [k \in 1..Len(cs) |-> Answer(cs[k])]

Pending(r) == {k \in 1..Len(calls[r]) : calls[r][k].answer = "pending"}

\* The loop of request r has left category c behind without an exception.
Completed(r, c) == cat[r] > c \/ returned[r].status = "returned"

HasEntry(res, name) == \E k \in 1..Len(res) : res[k].category = name

EntryOf(res, name) == res[CHOOSE k \in 1..Len(res) : res[k].category = name]

Keys(res) == [k \in 1..Len(res) |-> res[k].category]

TopScore(fn, labels) == SetMax({ScoreOf(fn, labels[i]) : i \in 1..Len(labels)})

\* The categories above the chunking threshold, and the others.
ChunkedCategories == {c \in 1..Len(taxonomy) : Len(taxonomy[c].labels) > chunk_threshold}

SmallCategories == {c \in 1..Len(taxonomy) : Len(taxonomy[c].labels) <= chunk_threshold}

DownloadFailures == DownloadOutcomes \ {"ok"}

----------------------------------------------------------------------------
(* C1 *)

\* C1: with a backend whose confidence is a function of the label alone, the
\* entry stored for a chunked category is a label of the category that has
\* the highest confidence of the whole, unpartitioned label list, with that
\* label's score.
C1_ChunkInvariance ==
    \A r \in requests : \A c \in ChunkedCategories :
        (backend.det /\ Completed(r, c)) =>
            LET labels == taxonomy[c].labels
                name   == taxonomy[c].name
            IN  /\ HasEntry(results[r], name)
                /\ LET e == EntryOf(results[r], name)
                   IN  /\ \E i \in 1..Len(labels) : labels[i] = e.label
                       /\ e.score = ScoreOf(backend.fn, e.label)
                       /\ e.score = TopScore(backend.fn, labels)

\* The single best label sits in the last, shorter chunk and was chosen.
C1_Witness ==
    \E r \in requests : \E c \in ChunkedCategories :
        /\ backend.det /\ Completed(r, c)
        /\ Len(taxonomy[c].labels) = chunk_threshold + 1
        /\ HasEntry(results[r], taxonomy[c].name)
        /\ EntryOf(results[r], taxonomy[c].name).label = chunk_threshold + 1
        /\ EntryOf(results[r], taxonomy[c].name).score = 90
        /\ backend.fn.base = 10 /\ backend.fn.p2 = 1 /\ backend.fn.s2 = 50

----------------------------------------------------------------------------
(* C2 *)

\* C2: the calls issued for a chunked category pass consecutive slices of at
\* most chunk_size labels, only the last one shorter, whose concatenation in
\* call order is a prefix of the label list; once the category is completed
\* there are exactly ceil(N/chunk_size) of them and the concatenation is the
\* label list itself.
C2_ChunkPartition ==
    \A r \in requests : \A c \in ChunkedCategories :
        LET labels == taxonomy[c].labels
            cs     == CallsFor(r, taxonomy[c].name)
        IN  /\ IsPrefix(Flatten(PassedLabels(cs)), labels)
            /\ \A k \in 1..Len(cs) :
                  /\ Len(cs[k].labels) >= 1
                  /\ Len(cs[k].labels) <= chunk_size
                  /\ (k < Len(cs) => Len(cs[k].labels) = chunk_size)
            /\ Completed(r, c) =>
                  /\ Len(cs) = CeilDiv(Len(labels), chunk_size)
                  /\ Flatten(PassedLabels(cs)) = labels

\* A completed category of threshold+1 labels: its last slice is shorter.
C2_Witness ==
    \E r \in requests : \E c \in ChunkedCategories :
        /\ Completed(r, c)
        /\ Len(taxonomy[c].labels) = chunk_threshold + 1
        /\ LET cs == CallsFor(r, taxonomy[c].name)
           IN  Len(cs) > 1 /\ Len(cs[Len(cs)].labels) < chunk_size

----------------------------------------------------------------------------
(* C3 *)

\* C3: a completed category of at most chunk_threshold labels got exactly one
\* call, with the full label list, and the first element of what came back
\* is stored as it is.
C3_SingleCall ==
    \A r \in requests : \A c \in SmallCategories :
        Completed(r, c) =>
            LET labels == taxonomy[c].labels
                name   == taxonomy[c].name
                cs     == CallsFor(r, name)
            IN  /\ Len(cs) = 1
                /\ cs[1].labels = labels
                /\ LET back == Answer(cs[1])
                   IN  back # << >> =>
                          /\ HasEntry(results[r], name)
                          /\ EntryOf(results[r], name).label = back[1].label
                          /\ EntryOf(results[r], name).score = back[1].score

\* A category of exactly chunk_threshold labels, answered with a list whose
\* first element is not its best one: the first element is what is stored.
C3_Witness ==
    \E r \in requests : \E c \in SmallCategories :
        /\ Completed(r, c)
        /\ Len(taxonomy[c].labels) = chunk_threshold
        /\ HasEntry(results[r], taxonomy[c].name)
        /\ EntryOf(results[r], taxonomy[c].name).score
              < TopScore(backend.fn, taxonomy[c].labels)

----------------------------------------------------------------------------
(* C4 *)

\* C4: when the download failed (status not 200, timeout, undecodable bytes)
\* the request has ended with the failure reply and has issued no classifier
\* call.
C4_NoCallAfterFailedDownload ==
    \A r \in requests :
        image[r] \in DownloadFailures =>
            /\ calls[r] = << >>
            /\ pc[r] = "done"
            /\ returned[r].status = "raised"
            /\ Replies(r) = << Failure(image[r]) >>

C4_Witness ==
    \E r \in requests :
        image[r] = "http_error" /\ Replies(r) = << Failure("http_error") >>

----------------------------------------------------------------------------
(* C5 *)

\* C5: when a classifier call raised, it is the last call of the request,
\* classify_astronomy_image returned nothing (not even the entries already
\* stored), and the only reply is one failure message.
C5_FailFast ==
    \A r \in requests : \A k \in 1..Len(calls[r]) :
        calls[r][k].answer = "raise" =>
            /\ k = Len(calls[r])
            /\ pc[r] = "done"
            /\ returned[r] = [status |-> "raised", value |-> << >>]
            /\ Replies(r) = << Failure("classification") >>

\* A chunk call raised after an earlier category had been stored and with a
\* later category still to classify.
C5_Witness ==
    \E r \in requests :
        /\ calls[r] # << >>
        /\ calls[r][Len(calls[r])].answer = "raise"
        /\ results[r] # << >>
        /\ cat[r] \in ChunkedCategories
        /\ cat[r] < Len(taxonomy)

----------------------------------------------------------------------------
(* C6 *)

\* The first position of rs that holds the highest score of rs.
FirstMax(rs) ==
    CHOOSE i \in 1..Len(rs) :
        /\ \A j \in 1..Len(rs) : rs[j].score <= rs[i].score
        /\ \A j \in 1..Len(rs) : rs[j].score = rs[i].score => i <= j

\* C6: the entry of a completed chunked category is the first element, in
\* chunk order and then in the order the backend returned them, that holds
\* the highest score of all the results collected for the category.
C6_StableTieBreak ==
    \A r \in requests : \A c \in ChunkedCategories :
        Completed(r, c) =>
            LET name == taxonomy[c].name
                all  == Flatten(Answers(CallsFor(r, name)))
            IN  all # << >> =>
                  LET first == all[FirstMax(all)]
                  IN  /\ HasEntry(results[r], name)
                      /\ EntryOf(results[r], name).label = first.label
                      /\ EntryOf(results[r], name).score = first.score

\* Two labels of different chunks share the highest score; the earlier one is
\* the answer.
C6_Witness ==
    \E r \in requests : \E c \in ChunkedCategories :
        /\ Completed(r, c)
        /\ HasEntry(results[r], taxonomy[c].name)
        /\ LET all == Flatten(Answers(CallsFor(r, taxonomy[c].name)))
               e   == EntryOf(results[r], taxonomy[c].name)
           IN  \E i, j \in 1..Len(all) :
                  /\ i + chunk_size < j
                  /\ all[i].label = e.label
                  /\ all[j].score = e.score
                  /\ \E m \in 1..Len(all) : all[m].score < e.score

----------------------------------------------------------------------------
(* C7 *)

\* C7: the number of stars rendered for a confidence is between 1 and 5, is
\* the band of width one fifth the confidence falls in (the fifth band
\* closed at 1.0), never exceeds the stars of a higher confidence, and is 1
\* for 0.0, 3 for 0.5 and 5 for 0.99 and 1.0.
C7_Stars ==
    stars # 0 =>
        /\ stars \in 1..5
        /\ (stars - 1) * 20 <= score
        /\ (stars < 5 => score < stars * 20)
        /\ (stars = 5 => score >= 80)
        /\ \A t \in 0..score : Stars(t) <= stars
        /\ (score = 0 => stars = 1)
        /\ (score = 50 => stars = 3)
        /\ (score = 99 => stars = 5)
        /\ (score = 100 => stars = 5)

\* The cap is what gives 1.0 its five stars.
C7_Witness == score = 100 /\ stars = 5

----------------------------------------------------------------------------
(* C8 *)

CategoryIndex(name) == CHOOSE c \in 1..Len(taxonomy) : taxonomy[c].name = name

\* C8: a request has at most one classifier call in flight, and it is the
\* last one issued; calls exist only once the image is loaded; consecutive
\* calls go down the category declarations, and up the label list within a
\* category.
C8_Sequential ==
    \A r \in requests :
        /\ Cardinality(Pending(r)) <= 1
        /\ Pending(r) \subseteq {Len(calls[r])}
        /\ (pc[r] = "classify" <=> Pending(r) # {})
        /\ (calls[r] # << >> => image[r] = "loaded")
        /\ \A k \in 1..(Len(calls[r]) - 1) :
              LET a == calls[r][k]
                  b == calls[r][k + 1]
              IN  \/ CategoryIndex(a.category) + 1 = CategoryIndex(b.category)
                  \/ /\ a.category = b.category
                     /\ a.labels[Len(a.labels)] + 1 = b.labels[1]
        /\ (calls[r] # << >> =>
              /\ CategoryIndex(calls[r][1].category) = 1
              /\ calls[r][1].labels[1] = 1)

\* Two requests each have a call in flight, one of them its third.
C8_Witness ==
    \E r, q \in requests :
        /\ r # q
        /\ Pending(r) # {} /\ Pending(q) # {}
        /\ Len(calls[r]) >= 3

----------------------------------------------------------------------------
(* C9 *)

Failed(r) == returned[r].status = "raised"

\* The least label that holds the highest confidence of the list.
BestLabel(fn, labels) ==
    LET top == TopScore(fn, labels)
    IN  CHOOSE l \in 1..Len(labels) :
            /\ ScoreOf(fn, l) = top
            /\ \A m \in 1..(l - 1) : ScoreOf(fn, m) < top

\* The report of a request that no other request has touched, for a backend
\* that ranks every candidate by the label's confidence.
UndisturbedReport ==
    [kind   |-> "report",
     error  |-> "none",
     blocks |-> [c \in 1..Len(taxonomy) |->
                   LET l == BestLabel(backend.fn, taxonomy[c].labels)
                   IN  [category |-> taxonomy[c].name, label |-> l,
                        score |-> ScoreOf(backend.fn, l),
                        stars |-> Stars(ScoreOf(backend.fn, l))]]]

\* C9: a failed request has been sent exactly one reply, the failure, and
\* has no call left in flight (nothing is retried); every other request,
\* whether it ended before the failure or after it, has been sent nothing
\* while it runs and exactly one reply when done, and when it returned that
\* reply is the report it would have sent alone.
C9_FailureIsolated ==
    \A r \in requests :
        Failed(r) =>
            /\ pc[r] = "done"
            /\ Len(Replies(r)) = 1
            /\ Replies(r)[1].kind = "failure"
            /\ Pending(r) = {}
            /\ \A q \in requests \ {r} :
                  /\ (returned[q].status = "returned" =>
                         Replies(q) = << UndisturbedReport >>)
                  /\ Len(Replies(q)) = (IF pc[q] = "done" THEN 1 ELSE 0)

\* One request failed in a classifier call and got its failure reply; the
\* other one was answered after that, with its report.
C9_Witness ==
    \E r, q \in requests :
        /\ r # q
        /\ Failed(r) /\ image[r] = "loaded"
        /\ returned[q].status = "returned"
        /\ sent = << [request |-> r, message |-> Failure("classification")],
                     [request |-> q, message |-> UndisturbedReport] >>

----------------------------------------------------------------------------
(* C10 *)

\* The categories for which some call of request r gave a non-empty list, in
\* declaration order.
AnsweredNames(r) ==
    LET names == [c \in 1..Len(taxonomy) |-> taxonomy[c].name]
        Got(name) == \E k \in 1..Len(calls[r]) :
                        /\ calls[r][k].category = name
                        /\ calls[r][k].answer \in {"ranked", "unranked"}
    IN  SelectSeq(names, Got)

\* C10 as stated: whatever the backend answers, a returned mapping has an
\* entry for every category of the taxonomy.
C10_EveryCategoryHasEntry ==
    \A r \in requests :
        returned[r].status = "returned" =>
            {returned[r].value[k].category : k \in 1..Len(returned[r].value)}
                = CategoryNames(taxonomy)

\* C10 amended: a returned mapping has exactly one entry for every category
\* for which the backend gave at least one result, in declaration order, and
\* none for a category whose calls all came back empty; the report has one
\* block per entry, in the same order.  It has an entry for every category
\* when no call came back empty.
C10_EntryPerAnsweredCategory ==
    \A r \in requests :
        returned[r].status = "returned" =>
            /\ Keys(returned[r].value) = AnsweredNames(r)
            /\ Len(Replies(r)) = 1
            /\ Replies(r)[1].kind = "report"
            /\ Keys(Replies(r)[1].blocks) = AnsweredNames(r)
            /\ ((\A k \in 1..Len(calls[r]) : calls[r][k].answer # "empty")
                  => Len(returned[r].value) = Len(taxonomy))

\* A returned mapping that lacks a category whose call came back empty, and
\* has the others.
C10_Witness ==
    \E r \in requests :
        /\ returned[r].status = "returned"
        /\ Len(returned[r].value) >= 1
        /\ Len(returned[r].value) < Len(taxonomy)
        /\ \E k \in 1..Len(calls[r]) : calls[r][k].answer = "empty"

====
